---- MODULE Spec2Model ----
(***************************************************************************)
(* KranKalkulator: the time-bucketing engine of kran_kalkulator_app.py.    *)
(*                                                                         *)
(* Representation                                                          *)
(*   str          a sequence of one-character strings, <<"0","7","3","0">> *)
(*   None         [kind |-> "None"]                                        *)
(*   dt.time      [kind |-> "time", h |-> 0..23, m |-> 0..59]              *)
(*   dt.date      [kind |-> "date", ord |-> day of the year 2025]          *)
(*   dt.timedelta [kind |-> "timedelta", minutes |-> Int] as a raw cell;   *)
(*                a plain Int (minutes) once normalised                    *)
(*   dt.datetime  minutes since the start of day 0: ord * 24*60 + h*60 + m *)
(*   hours(..)    a float with two decimals, held as hundredths (Int)      *)
(*   dict         a function whose domain is the set of keys               *)
(***************************************************************************)
EXTENDS Integers, Sequences, FiniteSets, TLC

VARIABLES pc, rules, edited, rows, errors, totals, arg, ret, frame

vars == <<pc, rules, edited, rows, errors, totals, arg, ret, frame>>

appVars == <<pc, rules, edited, rows, errors, totals>>

\* ------------------------------------------------------------------ bounds

\* Clock times fed to compute_row lie on a grid of this many minutes.
GridStep == 15

\* Longest text fed to _to_time.
MaxLen == 5

\* Largest number of rows the data editor holds.
MaxRows == 2

\* ------------------------------------------------------------- raw values

None == [kind |-> "None"]

Str(s) == [kind |-> "str", s |-> s]

Time(h, m) == [kind |-> "time", h |-> h, m |-> m]

Timedelta(mins) == [kind |-> "timedelta", minutes |-> mins]

MinutesPerDay == 24 * 60

\* ------------------------------------------------------------ str methods

DigitChars == <<"0", "1", "2", "3", "4", "5", "6", "7", "8", "9">>

IsDigitChar(c) == \E i \in 1..Len(DigitChars) : DigitChars[i] = c

DigitVal(c) == (CHOOSE i \in 1..Len(DigitChars) : DigitChars[i] = c) - 1

\* str.strip(): leading and trailing whitespace removed.
RECURSIVE lstrip(_)
lstrip(s) == IF s # <<>> /\ Head(s) = " " THEN lstrip(Tail(s)) ELSE s

RECURSIVE rstrip(_)
rstrip(s) ==
    IF s # <<>> /\ s[Len(s)] = " " THEN rstrip(SubSeq(s, 1, Len(s) - 1)) ELSE s

strip(s) == rstrip(lstrip(s))

\* str.replace(a, b) for one-character a and b.
replace(s, a, b) == [i \in 1..Len(s) |-> IF s[i] = a THEN b ELSE s[i]]

Contains(s, c) == \E i \in 1..Len(s) : s[i] = c

\* str.split(sep): the pieces between the separators, empty pieces kept.
RECURSIVE split(_, _)
split(s, sep) ==
    IF ~Contains(s, sep) THEN <<s>>
    ELSE LET i == CHOOSE k \in 1..Len(s) :
                      s[k] = sep /\ \A j \in 1..(k - 1) : s[j] # sep
         IN <<SubSeq(s, 1, i - 1)>> \o split(SubSeq(s, i + 1, Len(s)), sep)

\* str.isdigit(): non-empty and digits only.
isdigit(s) == s # <<>> /\ \A i \in 1..Len(s) : IsDigitChar(s[i])

RECURSIVE DecimalValue(_)
DecimalValue(s) ==
    IF s = <<>> THEN 0
    ELSE 10 * DecimalValue(SubSeq(s, 1, Len(s) - 1)) + DigitVal(s[Len(s)])

\* int(text): surrounding whitespace and one leading sign are accepted; anything
\* else raises ValueError (ok = FALSE).
int_digits(body, sign) ==
    IF isdigit(body) THEN [ok |-> TRUE, v |-> sign * DecimalValue(body)]
    ELSE [ok |-> FALSE, v |-> 0]

int_stripped(t) ==
    IF t # <<>> /\ Head(t) = "-" THEN int_digits(Tail(t), 0 - 1)
    ELSE IF t # <<>> /\ Head(t) = "+" THEN int_digits(Tail(t), 1)
    ELSE int_digits(t, 1)

int(s) == int_stripped(strip(s))

\* --------------------------------------------------------------- _to_time

\* dt.time(hh, mm) raises ValueError outside 0..23 / 0..59.
TimeInRange(hh, mm) == 0 <= hh /\ hh <= 23 /\ 0 <= mm /\ mm <= 59

\* the ':' branch: hh, mm = s.split(":"); dt.time(int(hh), int(mm)); any
\* exception gives None.
time_of(hh, mm) ==
    IF hh.ok /\ mm.ok /\ TimeInRange(hh.v, mm.v) THEN Time(hh.v, mm.v) ELSE None

time_of_parts(parts) ==
    IF Len(parts) # 2 THEN None ELSE time_of(int(parts[1]), int(parts[2]))

to_time_colon(s) == time_of_parts(split(s, ":"))

\* the digits-only branch: HHMM, HMM, H or HH.
to_time_digits_unchecked(s) ==
    LET n == Len(s)
        hh == IF n = 4 THEN DecimalValue(SubSeq(s, 1, 2))
              ELSE IF n = 3 THEN DecimalValue(SubSeq(s, 1, 1))
              ELSE DecimalValue(s)
        mm == IF n = 4 THEN DecimalValue(SubSeq(s, 3, 4))
              ELSE IF n = 3 THEN DecimalValue(SubSeq(s, 2, 3))
              ELSE 0
    IN IF n > 4 THEN None ELSE Time(hh, mm)

to_time_digits(s) ==
    LET n == Len(s)
        hh == IF n = 4 THEN DecimalValue(SubSeq(s, 1, 2))
              ELSE IF n = 3 THEN DecimalValue(SubSeq(s, 1, 1))
              ELSE DecimalValue(s)
        mm == IF n = 4 THEN DecimalValue(SubSeq(s, 3, 4))
              ELSE IF n = 3 THEN DecimalValue(SubSeq(s, 2, 3))
              ELSE 0
    IN IF n > 4 THEN None
       ELSE IF 0 <= hh /\ hh <= 23 /\ 0 <= mm /\ mm <= 59
            THEN Time(hh, mm) ELSE None

\* after s = s.replace(".", ":").replace(",", ":")
to_time_text(s) ==
    IF Contains(s, ":") THEN to_time_colon(s)
    ELSE IF isdigit(s) THEN to_time_digits(s)
    ELSE None

\* after s = str(x).strip()
to_time_stripped(s) ==
    IF s = <<>> THEN None
    ELSE to_time_text(replace(replace(s, ".", ":"), ",", ":"))

_to_time(x) ==
    IF x.kind = "None" THEN None
    ELSE IF x.kind = "time" THEN x
    ELSE to_time_stripped(strip(x.s))

\* ---------------------------------------------------------- _to_timedelta

\* The result is a dt.timedelta, held as minutes.
timedelta_of(hh, mm) == IF hh.ok /\ mm.ok THEN hh.v * 60 + mm.v ELSE 0

timedelta_of_parts(parts) ==
    IF Len(parts) # 2 THEN 0 ELSE timedelta_of(int(parts[1]), int(parts[2]))

to_timedelta_colon(s) == timedelta_of_parts(split(s, ":"))

to_timedelta_digits(s) ==
    IF Len(s) = 4
    THEN DecimalValue(SubSeq(s, 1, 2)) * 60 + DecimalValue(SubSeq(s, 3, 4))
    ELSE IF Len(s) = 3
    THEN DecimalValue(SubSeq(s, 1, 1)) * 60 + DecimalValue(SubSeq(s, 2, 3))
    ELSE DecimalValue(s)

to_timedelta_text(s) ==
    IF Contains(s, ":") THEN to_timedelta_colon(s)
    ELSE IF isdigit(s) THEN to_timedelta_digits(s)
    ELSE 0

to_timedelta_stripped(s) ==
    IF s = <<>> THEN 0
    ELSE to_timedelta_text(replace(replace(s, ".", ":"), ",", ":"))

_to_timedelta(x) ==
    IF x.kind = "None" THEN 0
    ELSE IF x.kind = "timedelta" THEN x.minutes
    ELSE to_timedelta_stripped(strip(x.s))

\* --------------------------------------------------------------- calendar

\* Days of 2025 before the first of each month.
DaysBeforeMonth == <<0, 31, 59, 90, 120, 151, 181, 212, 243, 273, 304, 334>>

\* dt.date(2025, month, day)
Date(month, day) == [kind |-> "date", ord |-> DaysBeforeMonth[month] + day]

\* d + dt.timedelta(days=1)
NextDay(d) == [kind |-> "date", ord |-> d.ord + 1]

\* date.weekday(): Monday is 0. The first of January 2025 is a Wednesday.
weekday(d) == (d.ord + 1) % 7

\* holidays.country_holidays("NO") in 2025.
NO_HOLIDAYS ==
    {Date(1, 1), Date(4, 17), Date(4, 18), Date(4, 20), Date(4, 21), Date(5, 1),
     Date(5, 17), Date(5, 29), Date(6, 8), Date(6, 9), Date(12, 25), Date(12, 26)}

is_holiday(d) == d \in NO_HOLIDAYS

is_weekend(d) == weekday(d) >= 5

\* pd.to_datetime(text).date() inside try/except: the only date text the model
\* feeds is text pandas cannot parse, which gives None.
_to_date(x) ==
    IF x.kind = "None" THEN None
    ELSE IF x.kind = "date" THEN x
    ELSE None

\* ------------------------------------------------------------------ rules

Rules(day_start, day_end, ot50_end, night_end) ==
    [day_start |-> day_start, day_end |-> day_end,
     ot50_end |-> ot50_end, night_end |-> night_end]

DEFAULT_RULES == Rules(Time(7, 30), Time(15, 0), Time(21, 0), Time(7, 30))

\* ---------------------------------------------------------------- engine

Max(a, b) == IF a >= b THEN a ELSE b

Min(a, b) == IF a <= b THEN a ELSE b

combine(d, t) == d.ord * MinutesPerDay + t.h * 60 + t.m

\* The date of a dt.datetime.
DateOf(instant) == [kind |-> "date", ord |-> instant \div MinutesPerDay]

\* round(td.total_seconds() / 3600.0, 2) in hundredths of an hour. A whole number
\* of minutes is never halfway between two hundredths, so this is the nearest one.
hours(td) == (10 * td + 3) \div 6

overlap(a1, a2, b1, b2) == Max(0, Min(a2, b2) - Max(a1, b1))

\* dict.get(key, default)
get(dict, key, default) == IF key \in DOMAIN dict THEN dict[key] ELSE default

EmptyDict == <<>>

\* The weekday branch of split_work_by_windows.
weekday_buckets(start_dt, end_dt, r, day) ==
    LET d0 == day
        ord_start == combine(d0, r.day_start)
        ord_end == combine(d0, r.day_end)
        ot50_end == combine(d0, r.ot50_end)
        night_start == ot50_end
        night_end == combine(NextDay(d0), r.night_end)
        ord_td == overlap(start_dt, end_dt, ord_start, ord_end)
        ot50_td == overlap(start_dt, end_dt, ord_end, ot50_end)
        ot100_td == overlap(start_dt, end_dt, night_start, night_end)
                    + overlap(start_dt, end_dt, combine(d0, Time(0, 0)), ord_start)
    IN [k \in {"ord", "ot50", "ot100"} |->
           IF k = "ord" THEN ord_td ELSE IF k = "ot50" THEN ot50_td ELSE ot100_td]

split_weekend_first(start_dt, end_dt, r, day) ==
    IF end_dt <= start_dt THEN EmptyDict
    ELSE IF is_weekend(day) THEN [k \in {"weekend"} |-> end_dt - start_dt]
    ELSE IF is_holiday(day) THEN [k \in {"holiday"} |-> end_dt - start_dt]
    ELSE weekday_buckets(start_dt, end_dt, r, day)

split_weekend_by_windows(start_dt, end_dt, r, day) ==
    IF end_dt <= start_dt THEN EmptyDict
    ELSE IF is_holiday(day) THEN [k \in {"holiday"} |-> end_dt - start_dt]
    ELSE weekday_buckets(start_dt, end_dt, r, day)

split_by_end_day(start_dt, end_dt, r, day) ==
    IF end_dt <= start_dt THEN EmptyDict
    ELSE IF is_holiday(DateOf(end_dt)) THEN [k \in {"holiday"} |-> end_dt - start_dt]
    ELSE IF is_weekend(DateOf(end_dt)) THEN [k \in {"weekend"} |-> end_dt - start_dt]
    ELSE weekday_buckets(start_dt, end_dt, r, day)

split_work_by_windows(start_dt, end_dt, r, day) ==
    IF end_dt <= start_dt THEN EmptyDict
    ELSE IF is_holiday(day) THEN [k \in {"holiday"} |-> end_dt - start_dt]
    ELSE IF is_weekend(day) THEN [k \in {"weekend"} |-> end_dt - start_dt]
    ELSE weekday_buckets(start_dt, end_dt, r, day)

\* if end_dt <= start_dt: end_dt += dt.timedelta(days=1)
roll_end_never(start_dt, end_dt) == end_dt

roll_end_strict(start_dt, end_dt) ==
    IF end_dt < start_dt THEN end_dt + MinutesPerDay ELSE end_dt

roll_end(start_dt, end_dt) ==
    IF end_dt <= start_dt THEN end_dt + MinutesPerDay ELSE end_dt

\* billed_td = total_td - meal - wait, floored at zero.
billed_unfloored(total_td, meal, wait) == total_td - meal - wait

billed(total_td, meal, wait) ==
    IF total_td - meal - wait < 0 THEN 0 ELSE total_td - meal - wait

\* The locals of compute_row when it returns, past the early return.
session_locals(d, s, e, meal, wait, r, start_dt, end_dt) ==
    [err |-> FALSE, d |-> d, s |-> s, e |-> e, meal |-> meal, wait |-> wait,
     start_dt |-> start_dt, end_dt |-> end_dt, total_td |-> end_dt - start_dt,
     billed_td |-> billed(end_dt - start_dt, meal, wait),
     buckets |-> split_work_by_windows(start_dt, end_dt, r, d)]

\* if not d or not s or not e: the early return, err = TRUE. A dt.date and a
\* dt.time are always true (midnight too, since Python 3.5), so only None is not.
row_locals(d, s, e, meal, wait, r) ==
    IF d = None \/ s = None \/ e = None
    THEN [err |-> TRUE, d |-> d, s |-> s, e |-> e, meal |-> meal, wait |-> wait]
    ELSE session_locals(d, s, e, meal, wait, r, combine(d, s),
                        roll_end(combine(d, s), combine(d, e)))

compute_row_locals(date_val, start_t, end_t, meal_td, wait_td, r) ==
    row_locals(_to_date(date_val), _to_time(start_t), _to_time(end_t),
               _to_timedelta(meal_td), _to_timedelta(wait_td), r)

\* The columns of a result row.
numeric_cols ==
    <<"Totalt timer", "Ordinaer (07:30-15:00)", "Overtid 50% (15:00-21:00)",
      "Overtid 100% (21:00-07:30)", "Overtid 100% Helg", "Overtid 133% Helligdag",
      "Spisetid (t)", "Ventetid (t)", "Fakturerbar Krantid (t)">>

NumericKeys == {numeric_cols[i] : i \in 1..Len(numeric_cols)}

ErrorText == "Dato, start og slutt maa fylles inn."

\* The dict compute_row returns from its locals.
row_dict(L) ==
    IF L.err THEN [k \in {"_error"} |-> ErrorText]
    ELSE [k \in NumericKeys |->
            CASE k = "Totalt timer" -> hours(L.total_td)
              [] k = "Ordinaer (07:30-15:00)" -> hours(get(L.buckets, "ord", 0))
              [] k = "Overtid 50% (15:00-21:00)" -> hours(get(L.buckets, "ot50", 0))
              [] k = "Overtid 100% (21:00-07:30)" -> hours(get(L.buckets, "ot100", 0))
              [] k = "Overtid 100% Helg" -> hours(get(L.buckets, "weekend", 0))
              [] k = "Overtid 133% Helligdag" -> hours(get(L.buckets, "holiday", 0))
              [] k = "Spisetid (t)" -> hours(L.meal)
              [] k = "Ventetid (t)" -> hours(L.wait)
              [] k = "Fakturerbar Krantid (t)" -> hours(L.billed_td)]

compute_row(date_val, start_t, end_t, meal_td, wait_td, r) ==
    row_dict(compute_row_locals(date_val, start_t, end_t, meal_td, wait_td, r))

\* ------------------------------------------------- calling one function

\* ret and frame before the call has returned.
Pending == [kind |-> "pending"]

Called == ret # Pending

\* The script before its first run: the state of the page when no batch has
\* been evaluated.
AppIdle ==
    /\ pc = "sidebar"
    /\ rules = DEFAULT_RULES
    /\ edited = <<>>
    /\ rows = <<>>
    /\ errors = 0
    /\ totals = EmptyDict

\* Characters of the texts fed to _to_time.
TimeChars == {"0", "2", "3", "7", ":", ".", ",", "-"}

TimeTexts == UNION {[1..n -> TimeChars] : n \in 0..MaxLen}

TimeInputs == {None, Time(7, 30)} \cup {Str(s) : s \in TimeTexts}

InitTime ==
    /\ AppIdle
    /\ arg \in TimeInputs
    /\ ret = Pending
    /\ frame = Pending

CallToTime ==
    /\ ret = Pending
    /\ ret' = _to_time(arg)
    /\ UNCHANGED <<appVars, arg, frame>>

NextTime == CallToTime

SpecTime == InitTime /\ [][NextTime]_vars

\* The cells fed to compute_row.
Fmt4(t) ==
    LET h == t \div 60
        m == t % 60
    IN Str(<<DigitChars[(h \div 10) + 1], DigitChars[(h % 10) + 1],
             DigitChars[(m \div 10) + 1], DigitChars[(m % 10) + 1]>>)

GridTimes == {k * GridStep : k \in 0..((MinutesPerDay - 1) \div GridStep)}

\* Wed 16 Apr (before Maundy Thursday), Fri 16 May, Sat 17 May (Constitution
\* Day), Sun 18 May, Thu 29 May (Ascension Day), Tue 10 Jun.
RowDates == {Date(4, 16), Date(5, 16), Date(5, 17), Date(5, 18), Date(5, 29), Date(6, 10)}

\* Rules(day_start, day_end, ot50_end, night_end=DEFAULT_RULES.night_end)
SidebarRules(day_start, day_end, ot50_end) ==
    Rules(day_start, day_end, ot50_end, DEFAULT_RULES.night_end)

RowRules == {DEFAULT_RULES, SidebarRules(Time(6, 0), Time(14, 0), Time(22, 0))}

\* <<meal, wait>> cells.
MealWaitCells ==
    {<<None, Str(<<"0", "0", "0", "0">>)>>,
     <<Str(<<"0", "1", "0", "0">>), Str(<<"3", "0">>)>>,
     <<Str(<<"-", "1", ":", "3", "0">>), None>>,
     <<Str(<<"0", "1", "0", "0">>), Str(<<"2", "5", "0", "0">>)>>,
     <<Timedelta(0 - 90), Str(<<"x">>)>>}

InitRow ==
    /\ AppIdle
    /\ \E d \in RowDates, s \in GridTimes, e \in GridTimes,
          mw \in MealWaitCells, r \in RowRules :
          arg = [date |-> d, start |-> Fmt4(s), end |-> Fmt4(e),
                 meal |-> mw[1], wait |-> mw[2], rules |-> r]
    /\ ret = Pending
    /\ frame = Pending

CallComputeRow ==
    /\ ret = Pending
    /\ ret' = compute_row(arg.date, arg.start, arg.end, arg.meal, arg.wait, arg.rules)
    /\ frame' = compute_row_locals(arg.date, arg.start, arg.end, arg.meal, arg.wait,
                                   arg.rules)
    /\ UNCHANGED <<appVars, arg>>

NextRow == CallComputeRow

SpecRow == InitRow /\ [][NextRow]_vars

\* ----------------------------------------------------- properties of a row

\* The row the call was given, as the clock times and day it normalises to.
RowOk == Called /\ frame # Pending /\ ~frame.err

ClockStart == frame.s.h * 60 + frame.s.m

ClockEnd == frame.e.h * 60 + frame.e.m

\* end - start with the end on the following day when it is not later.
Elapsed ==
    IF ClockEnd <= ClockStart THEN ClockEnd - ClockStart + MinutesPerDay
    ELSE ClockEnd - ClockStart

Ordinary(d) == ~is_weekend(d) /\ ~is_holiday(d)

Bucket(k) == get(frame.buckets, k, 0)

\* C1: on an ordinary day under the default rules the buckets returned by
\* split_work_by_windows are non-negative and ord + ot50 + ot100 equals
\* end_dt - start_dt, for every start and end clock time.
C1_Conservation ==
    (RowOk /\ Ordinary(frame.d) /\ arg.rules = DEFAULT_RULES) =>
        /\ DOMAIN frame.buckets = {"ord", "ot50", "ot100"}
        /\ \A k \in DOMAIN frame.buckets : frame.buckets[k] >= 0
        /\ Bucket("ord") + Bucket("ot50") + Bucket("ot100")
               = frame.end_dt - frame.start_dt

\* C2: on a weekend day or public holiday, for every start, end and rule
\* configuration, the whole elapsed span is in exactly one of the weekend and
\* holiday buckets and the ordinary, 50% and 100% night buckets are zero.
C2_Exclusivity ==
    (RowOk /\ ~Ordinary(frame.d)) =>
        /\ \/ DOMAIN frame.buckets = {"weekend"} /\ frame.buckets["weekend"] = Elapsed
           \/ DOMAIN frame.buckets = {"holiday"} /\ frame.buckets["holiday"] = Elapsed
        /\ \/ /\ ret["Overtid 100% Helg"] = ret["Totalt timer"]
              /\ ret["Overtid 133% Helligdag"] = 0
           \/ /\ ret["Overtid 133% Helligdag"] = ret["Totalt timer"]
              /\ ret["Overtid 100% Helg"] = 0
        /\ ret["Totalt timer"] = hours(Elapsed)
        /\ ret["Totalt timer"] > 0
        /\ ret["Ordinaer (07:30-15:00)"] = 0
        /\ ret["Overtid 50% (15:00-21:00)"] = 0
        /\ ret["Overtid 100% (21:00-07:30)"] = 0

\* A Sunday session across midnight under changed rules, all of it weekend time.
C2_Witness ==
    /\ RowOk
    /\ frame.d = Date(5, 18)
    /\ arg.rules # DEFAULT_RULES
    /\ ClockStart = 22 * 60
    /\ ClockEnd = 8 * 60
    /\ ret["Overtid 100% Helg"] = 1000

\* C3: a date that is both a Saturday or Sunday and a holiday puts the whole span
\* in the holiday bucket and nothing in the weekend bucket; the weekend bucket is
\* non-zero only on weekend dates that are not holidays.
C3_Precedence ==
    RowOk =>
        /\ (is_weekend(frame.d) /\ is_holiday(frame.d)) =>
               /\ ret["Overtid 133% Helligdag"] = hours(Elapsed)
               /\ ret["Overtid 100% Helg"] = 0
               /\ Bucket("holiday") = Elapsed
               /\ "weekend" \notin DOMAIN frame.buckets
        /\ (ret["Overtid 100% Helg"] # 0 \/ Bucket("weekend") # 0) =>
               (is_weekend(frame.d) /\ ~is_holiday(frame.d))

\* Saturday 17 May 2025, 07:00 to 19:00: twelve hours of holiday time.
C3_Witness ==
    /\ RowOk
    /\ frame.d = Date(5, 17)
    /\ is_weekend(frame.d) /\ is_holiday(frame.d)
    /\ ClockStart = 7 * 60 /\ ClockEnd = 19 * 60
    /\ ret["Overtid 133% Helligdag"] = 1200

\* C4: billable is max(0, total - meal - wait) with total = end - start after the
\* rollover, and is never negative, also when meal + wait exceeds the total.
C4_BillableFloor ==
    RowOk =>
        /\ frame.billed_td = Max(0, Elapsed - frame.meal - frame.wait)
        /\ frame.billed_td >= 0
        /\ ret["Fakturerbar Krantid (t)"] = hours(Max(0, Elapsed - frame.meal - frame.wait))
        /\ ret["Fakturerbar Krantid (t)"] >= 0

\* One hour of meal and twenty-five of wait against a shorter session.
C4_Witness ==
    /\ RowOk
    /\ frame.meal = 60 /\ frame.wait = 25 * 60
    /\ frame.meal + frame.wait > Elapsed
    /\ ret["Fakturerbar Krantid (t)"] = 0

\* C6: a session across midnight is classified by its start date alone: from an
\* ordinary weekday it is split into ordinary, evening and night time only,
\* whatever the next day is, and from a weekend day or holiday it goes whole to
\* that bucket; 23:00 to 06:00 on an ordinary weekday under the default rules is
\* seven hours of 100% night time.
C6_AnchorDate ==
    (RowOk /\ ClockEnd <= ClockStart) =>
        /\ Ordinary(frame.d) =>
               /\ DOMAIN frame.buckets = {"ord", "ot50", "ot100"}
               /\ ret["Overtid 100% Helg"] = 0
               /\ ret["Overtid 133% Helligdag"] = 0
        /\ (is_weekend(frame.d) /\ ~is_holiday(frame.d)) =>
               /\ frame.buckets = [k \in {"weekend"} |-> Elapsed]
               /\ ret["Overtid 100% Helg"] = hours(Elapsed)
        /\ is_holiday(frame.d) =>
               /\ frame.buckets = [k \in {"holiday"} |-> Elapsed]
               /\ ret["Overtid 133% Helligdag"] = hours(Elapsed)
        /\ (Ordinary(frame.d) /\ arg.rules = DEFAULT_RULES
                /\ ClockStart = 23 * 60 /\ ClockEnd = 6 * 60) =>
               /\ frame.buckets["ot100"] = 7 * 60
               /\ ret["Overtid 100% (21:00-07:30)"] = 700
               /\ ret["Ordinaer (07:30-15:00)"] = 0
               /\ ret["Overtid 50% (15:00-21:00)"] = 0

\* Friday 16 May 2025 23:00 to 06:00, ending on a Saturday that is a holiday.
C6_Witness ==
    /\ RowOk
    /\ frame.d = Date(5, 16)
    /\ Ordinary(frame.d) /\ ~Ordinary(DateOf(frame.end_dt))
    /\ arg.rules = DEFAULT_RULES
    /\ ClockStart = 23 * 60 /\ ClockEnd = 6 * 60
    /\ ret["Overtid 100% (21:00-07:30)"] = 700

\* C8: an end clock time not later than the start is moved on by exactly one
\* day, so the end instant is after the start instant and 0 < total <= 24h.
C8_Rollover ==
    RowOk =>
        /\ frame.start_dt = combine(frame.d, frame.s)
        /\ ClockEnd <= ClockStart =>
               frame.end_dt = combine(frame.d, frame.e) + MinutesPerDay
        /\ ClockEnd > ClockStart => frame.end_dt = combine(frame.d, frame.e)
        /\ frame.end_dt > frame.start_dt
        /\ 0 < frame.total_td /\ frame.total_td <= MinutesPerDay
        /\ 0 < ret["Totalt timer"] /\ ret["Totalt timer"] <= 2400

\* 22:30 to 05:00 ends on the next day, six and a half hours later.
C8_Witness ==
    /\ RowOk
    /\ ClockStart = 22 * 60 + 30 /\ ClockEnd = 5 * 60
    /\ DateOf(frame.end_dt) = NextDay(frame.d)
    /\ frame.total_td = 6 * 60 + 30

\* C9 as stated: a row whose start equals its end is no error and is a
\* zero-duration row, with all-zero buckets and a total of zero.
C9_Degenerate ==
    (Called /\ frame # Pending /\ frame.d # None /\ frame.s # None
        /\ frame.e # None /\ frame.s = frame.e) =>
        /\ "_error" \notin DOMAIN ret
        /\ ret["Totalt timer"] = 0
        /\ \A k \in DOMAIN frame.buckets : frame.buckets[k] = 0

\* C9 as amended: a row whose start equals its end is no error and is a session
\* of a full day: the end is rolled to the next day, the total is 24 hours and
\* the partitioner's empty result is not returned.
C9_FullDay ==
    (Called /\ frame # Pending /\ frame.d # None /\ frame.s # None
        /\ frame.e # None /\ frame.s = frame.e) =>
        /\ "_error" \notin DOMAIN ret
        /\ frame.end_dt = frame.start_dt + MinutesPerDay
        /\ ret["Totalt timer"] = 2400
        /\ frame.buckets # EmptyDict

\* 07:30 to 07:30 on a Sunday: 24 hours of weekend time.
C9_Witness ==
    /\ RowOk
    /\ frame.d = Date(5, 18)
    /\ frame.s = Time(7, 30) /\ frame.e = Time(7, 30)
    /\ ret["Totalt timer"] = 2400
    /\ ret["Overtid 100% Helg"] = 2400

\* Whether a duration cell is text that names no duration.
Unparsable(x) == x.kind = "str" /\ ~Contains(x.s, ":") /\ ~isdigit(strip(x.s))

Negative(x) ==
    \/ x.kind = "timedelta" /\ x.minutes < 0
    \/ x.kind = "str" /\ strip(x.s) # <<>> /\ Head(strip(x.s)) = "-"

\* C10: _to_timedelta returns a duration >= 0 for every input, with negative,
\* absent and unparsable inputs giving exactly zero; so meal and wait are >= 0 in
\* every row and billable never exceeds total.
C10_NonNegativeDuration ==
    Called =>
        /\ \A x \in {arg.meal, arg.wait} :
               /\ _to_timedelta(x) >= 0
               /\ (x = None \/ Unparsable(x) \/ Negative(x)) => _to_timedelta(x) = 0
        /\ frame.meal >= 0 /\ frame.wait >= 0
        /\ ~frame.err => frame.billed_td <= frame.total_td

\* ------------------------------------------------- properties of _to_time

TimeOrNone(hh, mm) == IF hh \in 0..23 /\ mm \in 0..59 THEN Time(hh, mm) ELSE None

SameTimeTexts ==
    {<<"0", "7", "3", "0">>, <<"0", "7", ":", "3", "0">>, <<"7", ".", "3", "0">>,
     <<"7", ",", "3", "0">>, <<"7", "3", "0">>}

\* C7: "0730", "07:30", "7.30", "7,30" and "730" all give 07:30; digits only are
\* HH|MM at length 4, H|MM at length 3 and the hour at length 1 or 2; '.' and ','
\* stand for ':'; an hour outside 0..23 or a minute outside 0..59 gives None.
C7_ClockTimeClasses ==
    (Called /\ arg.kind = "str") =>
        LET t == arg.s
            n == Len(t)
        IN /\ t \in SameTimeTexts => ret = Time(7, 30)
           /\ (isdigit(t) /\ n = 4) =>
                  ret = TimeOrNone(DecimalValue(SubSeq(t, 1, 2)),
                                   DecimalValue(SubSeq(t, 3, 4)))
           /\ (isdigit(t) /\ n = 3) =>
                  ret = TimeOrNone(DecimalValue(SubSeq(t, 1, 1)),
                                   DecimalValue(SubSeq(t, 2, 3)))
           /\ (isdigit(t) /\ n <= 2) => ret = TimeOrNone(DecimalValue(t), 0)
           /\ (isdigit(t) /\ n > 4) => ret = None
           /\ \A i \in 1..n :
                  (/\ t[i] \in {":", ".", ","}
                   /\ isdigit(SubSeq(t, 1, i - 1))
                   /\ isdigit(SubSeq(t, i + 1, n))) =>
                      ret = TimeOrNone(DecimalValue(SubSeq(t, 1, i - 1)),
                                       DecimalValue(SubSeq(t, i + 1, n)))
           /\ ret = _to_time(Str(replace(t, ".", ":")))
           /\ ret = _to_time(Str(replace(t, ",", ":")))
           /\ ret # None => (ret.h \in 0..23 /\ ret.m \in 0..59)

\* "7,30" read as 07:30.
C7_Witness ==
    /\ Called
    /\ arg = Str(<<"7", ",", "3", "0">>)
    /\ ret = Time(7, 30)

\* ------------------------------------------------------------ the script

\* A row of the data editor: the cells compute_row reads.
Row(dato, start, slutt, spisetid, ventetid) ==
    [Dato |-> dato, Start |-> start, Slutt |-> slutt,
     Spisetid |-> spisetid, Ventetid |-> ventetid]

\* The row the editor opens with: today, 0730 to 1500, one hour of meal.
default(today) ==
    Row(today, Str(<<"0", "7", "3", "0">>), Str(<<"1", "5", "0", "0">>),
        Str(<<"0", "1", "0", "0">>), Str(<<"0", "0", "0", "0">>))

Today == {Date(6, 10), Date(5, 17)}

\* Rows the operator may add.
EditorRows ==
    {default(Date(6, 10)),
     Row(Date(6, 10), Str(<<"0", "7", "3", "0">>), None, None, None),
     Row(None, Str(<<"0", "7", "3", "0">>), Str(<<"1", "5", "0", "0">>), None, None),
     Row(Date(6, 10), Str(<<"7", "x">>), Str(<<"1", "5", "0", "0">>),
         Str(<<"3", "0">>), None),
     Row(Date(5, 17), Str(<<"0", "8", "0", "0">>), Str(<<"1", "6", "0", "0">>),
         None, None),
     Row(Date(6, 10), Str(<<"2", "3", "0", "0">>), Str(<<"0", "6", "0", "0">>),
         None, Str(<<"0", "0", "3", "0">>)),
     Row(Date(5, 18), Str(<<" ">>), Str(<<"1", "5", "0", "0">>), None, None),
     Row(Str(<<"x">>), Str(<<"0", "7", "3", "0">>), Str(<<"2", "5", "0", "0">>),
         None, None)}

\* The values the operator may set in the three time inputs of the sidebar.
SidebarStarts == {Time(7, 30), Time(6, 0)}

SidebarEnds == {Time(15, 0)}

SidebarOt50Ends == {Time(21, 0), Time(22, 0)}

Init ==
    /\ pc = "sidebar"
    /\ rules = DEFAULT_RULES
    /\ \E today \in Today : edited = <<default(today)>>
    /\ rows = <<>>
    /\ errors = 0
    /\ totals = EmptyDict
    /\ arg = Pending
    /\ ret = Pending
    /\ frame = Pending

\* with st.sidebar: the three time inputs and the rules built from them.
Sidebar ==
    /\ pc = "sidebar"
    /\ \E day_start \in SidebarStarts, day_end \in SidebarEnds,
          ot50_end \in SidebarOt50Ends :
          rules' = SidebarRules(day_start, day_end, ot50_end)
    /\ pc' = "editor"
    /\ UNCHANGED <<edited, rows, errors, totals, arg, ret, frame>>

RemoveAt(seq, i) == SubSeq(seq, 1, i - 1) \o SubSeq(seq, i + 1, Len(seq))

\* edited = st.data_editor(default, num_rows="dynamic"): the table as the
\* operator left it, then rows = [] and errors = 0.
DataEditor ==
    /\ pc = "editor"
    /\ \/ UNCHANGED edited
       \/ /\ Len(edited) < MaxRows
          /\ \E r \in EditorRows : edited' = Append(edited, r)
       \/ \E i \in 1..Len(edited) : edited' = RemoveAt(edited, i)
    /\ rows' = <<>>
    /\ errors' = 0
    /\ pc' = "loop"
    /\ UNCHANGED <<rules, totals, arg, ret, frame>>

\* str(cell or "").strip()
CellText(x) == IF x.kind = "str" THEN strip(x.s) ELSE <<>>

base(r) ==
    [k \in {"Dato", "Start", "Slutt", "Spisetid", "Ventetid"} |->
        CASE k = "Dato" -> _to_date(r.Dato)
          [] k = "Start" -> CellText(r.Start)
          [] k = "Slutt" -> CellText(r.Slutt)
          [] k = "Spisetid" -> r.Spisetid
          [] k = "Ventetid" -> r.Ventetid]

\* The loop's if "_error" in out: ... else: ...
loop_append_skip_errors(r, out, rws, errs) ==
    IF "_error" \in DOMAIN out
    THEN [rows |-> rws, errors |-> errs + 1]
    ELSE [rows |-> Append(rws, ("Feil" :> "") @@ out @@ base(r)), errors |-> errs]

loop_append(r, out, rws, errs) ==
    IF "_error" \in DOMAIN out
    THEN [rows |-> Append(rws, ("Feil" :> out["_error"]) @@ base(r)),
          errors |-> errs + 1]
    ELSE [rows |-> Append(rws, ("Feil" :> "") @@ out @@ base(r)), errors |-> errs]

\* One pass of the loop over edited.iterrows(): the new rows and errors.
loop_body(r, rls, rws, errs) ==
    loop_append(r, compute_row(r.Dato, r.Start, r.Slutt, r.Spisetid, r.Ventetid, rls),
                rws, errs)

\* rows and errors after the pass over the next row of edited.
AfterPass == loop_body(edited[Len(rows) + 1], rules, rows, errors)

LoopStep ==
    /\ pc = "loop"
    /\ Len(rows) < Len(edited)
    /\ rows' = AfterPass.rows
    /\ errors' = AfterPass.errors
    /\ UNCHANGED <<pc, rules, edited, totals, arg, ret, frame>>

\* A column of out_df summed; a row without the column holds NaN, which sum()
\* skips.
RECURSIVE SumColumn(_, _)
SumColumn(rws, c) ==
    IF rws = <<>> THEN 0
    ELSE (IF c \in DOMAIN Head(rws) THEN Head(rws)[c] ELSE 0) + SumColumn(Tail(rws), c)

\* existing_numeric_cols and out_df[existing_numeric_cols].sum(numeric_only=True)
Totals(rws) ==
    LET existing_numeric_cols ==
            {c \in NumericKeys : \E i \in 1..Len(rws) : c \in DOMAIN rws[i]}
    IN [c \in existing_numeric_cols |-> SumColumn(rws, c)]

Summary ==
    /\ pc = "loop"
    /\ Len(rows) = Len(edited)
    /\ totals' = Totals(rows)
    /\ pc' = "done"
    /\ UNCHANGED <<rules, edited, rows, errors, arg, ret, frame>>

\* A widget is touched and the script runs again from the top.
Rerun ==
    /\ pc = "done"
    /\ pc' = "sidebar"
    /\ rows' = <<>>
    /\ errors' = 0
    /\ totals' = EmptyDict
    /\ UNCHANGED <<rules, edited, arg, ret, frame>>

Next == Sidebar \/ DataEditor \/ LoopStep \/ Summary \/ Rerun

Spec == Init /\ [][Next]_vars

\* -------------------------------------------------- properties of a batch

Missing(r) ==
    _to_date(r.Dato) = None \/ _to_time(r.Start) = None \/ _to_time(r.Slutt) = None

MissingCount(n) == Cardinality({i \in 1..n : Missing(edited[i])})

\* What the rows that are not missing a field add to a column.
RECURSIVE EvaluatedSum(_, _, _)
EvaluatedSum(batch, rls, c) ==
    IF batch = <<>> THEN 0
    ELSE LET r == Head(batch)
         IN (IF Missing(r) THEN 0
             ELSE compute_row(r.Dato, r.Start, r.Slutt, r.Spisetid, r.Ventetid, rls)[c])
            + EvaluatedSum(Tail(batch), rls, c)

\* C5: a row whose date, start or end normalises to absent gets an error result
\* with no numeric fields and exactly one output row carrying the error marker;
\* output rows equal input rows in number, the error counter is the number of
\* such rows, every other row is evaluated, and an error row adds zero to every
\* total.
C5_MissingField ==
    /\ pc \in {"loop", "done"} =>
          /\ Len(rows) <= Len(edited)
          /\ errors = MissingCount(Len(rows))
          /\ \A i \in 1..Len(rows) :
                LET r == edited[i]
                IN /\ Missing(r) =>
                          /\ DOMAIN compute_row(r.Dato, r.Start, r.Slutt, r.Spisetid,
                                                r.Ventetid, rules) = {"_error"}
                          /\ rows[i]["Feil"] = ErrorText
                          /\ DOMAIN rows[i] \cap NumericKeys = {}
                   /\ ~Missing(r) =>
                          /\ rows[i]["Feil"] = ""
                          /\ NumericKeys \subseteq DOMAIN rows[i]
                          /\ \A c \in NumericKeys :
                                rows[i][c] = compute_row(r.Dato, r.Start, r.Slutt,
                                                         r.Spisetid, r.Ventetid, rules)[c]
    /\ pc = "done" =>
          /\ Len(rows) = Len(edited)
          /\ errors = MissingCount(Len(edited))
          /\ \A c \in NumericKeys : get(totals, c, 0) = EvaluatedSum(edited, rules, c)

\* A batch of two rows, the first without its end: one error, two output rows,
\* and totals that are those of the second row alone.
C5_Witness ==
    /\ pc = "done"
    /\ Len(edited) = 2
    /\ edited[1].Slutt = None /\ edited[1].Dato # None
    /\ ~Missing(edited[2])
    /\ errors = 1
    /\ Len(rows) = 2
    /\ rows[1]["Feil"] = ErrorText
    /\ totals["Totalt timer"] = rows[2]["Totalt timer"]
    /\ totals["Totalt timer"] > 0

\* C11: in every rule configuration a batch is evaluated with, also when the
\* operator has moved ordinary-start away from 07:30, night-end equals the
\* configured ordinary-start, so that for every row date the night window ends
\* where the ordinary window of the following day begins.
C11_NightEndFollowsStart ==
    pc \in {"loop", "done"} =>
        /\ rules.night_end = rules.day_start
        /\ \A i \in 1..Len(rows) :
              rows[i]["Dato"] # None =>
                  combine(NextDay(rows[i]["Dato"]), rules.night_end)
                      = combine(NextDay(rows[i]["Dato"]), rules.day_start)

====
